---- MODULE Spec2Model ----
(***************************************************************************)
(* Model of src/modules/runner.py: train_model (the training loop with the *)
(* Meta-Adapter key memory, best-checkpoint tracking and the final test    *)
(* evaluation) and eval_model (the evaluation loop).                       *)
(*                                                                         *)
(* Spec      one call of train_model                                       *)
(* EvalSpec  one call of eval_model                                        *)
(***************************************************************************)
EXTENDS Integers, Sequences, FiniteSets, TLC

VARIABLES
    pc,                 \* position of the running call
    error,              \* exception that ended the call, "none" otherwise
    enable_MetaAdapter, \* args.enable_MetaAdapter
    encoder,            \* args.encoder
    n_iters,            \* args.n_iters
    shots,              \* args.shots
    train_len,          \* number of batches train_loader yields per epoch
    batch_max,          \* largest batch train_loader yields
    train_classes,      \* labels present in the train split
    model_mode,         \* "train" / "eval" mode of the live model object
    heap,               \* model object -> parameter version it holds (-1: no such object)
    best_model,         \* object the name best_model is bound to ("unbound" before)
    best_acc,
    acc_val,
    total_iters,
    count_iters,
    i,                  \* enumerate index of the epoch's for loop
    meta_query,         \* "unbound" or "target_features"
    meta_key,           \* class -> row of M embeddings (<< >> while unbound)
    target,             \* labels of the batch of the last training step
    image_features,     \* embeddings of the batch of the last training step
    n_steps,            \* optimizer steps performed (scaler.step(optimizer))
    n_logs,             \* per-epoch "LR/Acc/Loss" lines printed
    n_val,              \* validation calls of eval_model that returned
    val_max,            \* largest validation accuracy returned so far (-1: none)
    val_max_params,     \* live parameters at the earliest epoch reaching val_max
    n_test,             \* test calls of eval_model that returned
    tested_obj,         \* object evaluated on the test split ("none" before)
    tested_params,      \* parameters evaluated on the test split (-1: none)
    saved_params,       \* parameters written to <save_path>/<filename>.pth (-1: none)
    enable_lora,        \* args.enable_lora
    enable_BitFit,      \* args.enable_BitFit
    task_type,          \* "image2text" or "image2image"
    target_features,    \* -1: the tensor passed in; else the parameter version
                        \* of the live model it was recomputed from
    n_recomputes,       \* recomputations of target_features (line 132)
    scored_key,         \* key memory read by the last forward pass (line 142)
    step_correct,       \* positions of the last batch whose label was ranked
                        \* first (what line 149 counts)
    snap_key,           \* key memory as it stood at the last deep copy
    eval_key,           \* key memory passed to the last eval_model call
    \* ---- eval_model (standalone call)
    support_img_loader, \* TRUE when a support loader is passed
    arg_meta_query,     \* TRUE when meta_query is not None
    arg_meta_key,       \* TRUE when meta_key is not None
    loader_len,         \* number of batches the evaluated loader yields
    batches_read,       \* batches fetched from the loader
    acc,                \* running accuracy, a fraction <<num, den>>
    tot_samples,
    all_targets,
    all_predictions,
    all_similarities,
    ret,                \* what the call returned; ret.valid is FALSE until it returns
    \* ---- similarity scoring of one query (lines 62-71)
    logit_scale,        \* the temperature multiplying the scores
    query,              \* one row of image_features, a normalised embedding
    refs,               \* the reference set: one embedding per class
    perm,               \* a permutation of the class axis
    sim_refs,           \* the query's scores against refs (cosine_similarity)
    pred_refs,          \* their argmax (pred)
    sim_perm,           \* the query's scores against the permuted refs
    pred_perm           \* their argmax

trainVars == <<encoder, n_iters, shots, train_len, batch_max, train_classes, heap,
               best_model, best_acc, acc_val, total_iters, count_iters, i, meta_query,
               meta_key, target, image_features, n_steps, n_logs, n_val, val_max,
               val_max_params, n_test, tested_obj, tested_params,
               saved_params, enable_lora, enable_BitFit, task_type, target_features,
               n_recomputes, scored_key, step_correct, snap_key, eval_key>>

evalVars == <<support_img_loader, arg_meta_query, arg_meta_key, loader_len,
              batches_read, acc, tot_samples, all_targets, all_predictions,
              all_similarities, ret>>

\* The arguments that select the adaptation mode; no step assigns them.
modeArgs == <<enable_lora, enable_BitFit, task_type>>

scoreVars == <<logit_scale, query, refs, perm, sim_refs, pred_refs, sim_perm,
               pred_perm>>

vars == <<pc, error, enable_MetaAdapter, model_mode, trainVars, evalVars, scoreVars>>

-----------------------------------------------------------------------------
(* Bounds of the model *)

NumClasses == 2     \* K = meta_query.shape[0]
M == 2              \* meta_key.shape[1], support embeddings per class
MaxNIters == 2
MaxShots == 4
MaxBatches == 3     \* batches per epoch of train_loader
MaxBatch == 3       \* samples per training batch
EvalMaxBatches == 3 \* batches of the evaluated loader
EvalMaxBatch == 2   \* samples per evaluated batch

Classes == 0 .. (NumClasses - 1)
Encoders == {"vision", "text", "both"}
TaskTypes == {"image2text", "image2image"}
AccLevels == {0, 50, 100}   \* accuracies an evaluation may return

Model == "model"    \* the model object passed to train_model
Copy == "copy"      \* the object made by copy.deepcopy(model)

-----------------------------------------------------------------------------
(* Helpers *)

RECURSIVE GCD(_, _)
GCD(a, b) == IF b = 0 THEN a ELSE GCD(b, a % b)

\* A non-negative rational n/d in lowest terms.
Frac(n, d) == LET g == GCD(n, d) IN <<n \div g, d \div g>>
FracAdd(x, y) == Frac(x[1] * y[2] + y[1] * x[2], x[2] * y[2])
FracMulInt(x, k) == Frac(x[1] * k, x[2])
FracDivInt(x, k) == Frac(x[1], x[2] * k)

RECURSIVE Reverse(_)
Reverse(s) == IF s = << >> THEN << >> ELSE Reverse(Tail(s)) \o <<Head(s)>>

Max2(a, b) == IF a >= b THEN a ELSE b

-----------------------------------------------------------------------------
(* eval_model's argument check, line 35. Arguments are TRUE when not None. *)

\* Mutant: the check fires only when both meta_query and meta_key are None.
MissingSourceBothAbsent(mq, mk, sup) == (~mk /\ ~mq) /\ ~sup

MissingSource(mq, mk, sup) == (~mk \/ ~mq) /\ ~sup

-----------------------------------------------------------------------------
(* Meta-Adapter key memory *)

\* get_vision_target_features(model, val_loader): one embedding per support
\* sample, in loader order; embeddings are named by their position.
SupportFeatures == [j \in 1 .. (NumClasses * M) |-> j]

\* support_features.reshape(K, -1, D): row c holds the c-th run of Len/K entries.
Reshape(flat, k) ==
    LET m == Len(flat) \div k
    IN  [c \in 0 .. (k - 1) |-> SubSeq(flat, c * m + 1, (c + 1) * m)]

\* meta_key.shape[1]
Shape1(mk) == Len(mk[0])

\* Mutant: the new embedding is prepended and nothing is dropped.
UpdateKeyNoDrop(mk, tar, feat) == [mk EXCEPT ![tar] = <<feat>> \o mk[tar]]

\* Mutant: the row is shifted the other way (first entry dropped, new one last).
UpdateKeyAppend(mk, tar, feat) == [mk EXCEPT ![tar] = Tail(mk[tar]) \o <<feat>>]

\* Mutant: the shifted row is written to every class.
UpdateKeyAllRows(mk, tar, feat) ==
    [c \in DOMAIN mk |-> <<feat>> \o SubSeq(mk[c], 1, Shape1(mk) - 1)]

\* meta_key[tar] = torch.cat([feat[None, :], meta_key[tar][:meta_key.shape[1] - 1]])
UpdateKey(mk, tar, feat) ==
    [mk EXCEPT ![tar] = <<feat>> \o SubSeq(mk[tar], 1, Shape1(mk) - 1)]

\* model.encode_image(images), normalised: the embedding of sample p of the
\* batch of step t (0-based) under the parameters of that step; each is a
\* value of its own, told apart from the support embeddings by its sign.
EncodeImages(t, n, width) == [p \in 1 .. n |-> -(t * width + p)]

\* cosine_similarity.argmax of a training sample, lines 143-149: which class
\* the scorer ranks first for an embedding is data; here it is fixed by the
\* embedding's name, so that runs hold samples ranked right and ranked wrong.
TrainPrediction(feat) == (-feat) % NumClasses

\* Mutant: only the samples ranked right enter the memory.
RECURSIVE UpdateKeysCorrectOnly(_, _, _)
UpdateKeysCorrectOnly(mk, tars, feats) ==
    IF tars = << >> \/ feats = << >>
    THEN mk
    ELSE UpdateKeysCorrectOnly(IF TrainPrediction(Head(feats)) = Head(tars)
                               THEN UpdateKey(mk, Head(tars), Head(feats))
                               ELSE mk,
                               Tail(tars), Tail(feats))

\* for tar, feat in zip(target, image_features): ... (lines 163-164)
RECURSIVE UpdateKeys(_, _, _)
UpdateKeys(mk, tars, feats) ==
    IF tars = << >> \/ feats = << >>
    THEN mk
    ELSE UpdateKeys(UpdateKey(mk, Head(tars), Head(feats)), Tail(tars), Tail(feats))

\* The label sequences a batch of train_loader may carry.
Batches(width, labels) == UNION {[1 .. n -> labels] : n \in 1 .. width}

-----------------------------------------------------------------------------
(* Target features, lines 129-132 *)

\* Mutant: bias-only tuning does not trigger the recomputation.
NeedsRecomputeLoraOnly(lora, bitfit, task, enc) ==
    \/ (lora /\ task = "image2text" /\ (enc = "text" \/ enc = "both"))
    \/ (lora /\ task = "image2image" /\ (enc = "vision" \/ enc = "both"))

NeedsRecompute(lora, bitfit, task, enc) ==
    \/ (lora /\ task = "image2text" /\ (enc = "text" \/ enc = "both"))
    \/ (lora /\ task = "image2image" /\ (enc = "vision" \/ enc = "both"))
    \/ bitfit

\* get_text_target_features(model, dataset) / get_vision_target_features(model,
\* target_loader): the class embeddings under the live model's parameters,
\* named by the version of those parameters.
RecomputedFeatures(params) == params

-----------------------------------------------------------------------------
(* Best-checkpoint rule, line 181 *)

\* Mutant: an evaluation is handed the memory as it stood at the last deep copy.
PassedMemoryAtSnapshot(live, snap) == IF snap = << >> THEN live ELSE snap

\* meta_key=meta_key of lines 177 and 186: the local meta_key, the one tensor
\* the training steps write in place; copy.deepcopy(model) of line 183 takes
\* no copy of it, the tensor being no attribute of the model.
PassedMemory(live, snap) == live

\* Mutant: an equal accuracy replaces the snapshot too.
ImprovesOrTies(a, best) == a >= best

Improves(a, best) == a > best

\* Mutant: the break leaves the while loop as well, skipping the validation.
AfterBreakToTest == "test"

\* Lines 167-176: break leaves the for loop only; control falls through to
\* the epoch's log line and the validation call.
AfterBreak == "epoch_end"

-----------------------------------------------------------------------------
(* Similarity scores, predictions and accuracy *)

\* Mutant: of several maximal scores the last one is taken.
ArgMaxLast(sim) ==
    CHOOSE c \in DOMAIN sim :
        /\ \A d \in DOMAIN sim : sim[d] <= sim[c]
        /\ \A d \in DOMAIN sim : d > c => sim[d] < sim[c]

\* cosine_similarity.argmax(dim=-1): the lowest index holding the largest score.
ArgMax(sim) ==
    CHOOSE c \in DOMAIN sim :
        /\ \A d \in DOMAIN sim : sim[d] <= sim[c]
        /\ \A d \in DOMAIN sim : d < c => sim[d] < sim[c]

\* cls_acc(output, target): the share of rows whose top-1 class is the target.
cls_acc(output, tgt) ==
    Frac(Cardinality({p \in 1 .. Len(output) : ArgMax(output[p]) = tgt[p]}), Len(output))

\* Mutant: the batch accuracy is added without its weight.
AccumulateUnweighted(a, batch_acc, n) == FracAdd(a, batch_acc)

\* acc += cls_acc(cosine_similarity, target) * len(cosine_similarity)
Accumulate(a, batch_acc, n) == FracAdd(a, FracMulInt(batch_acc, n))

OneHot(c) == [k \in Classes |-> IF k = c THEN 1 ELSE 0]
Flat == [k \in Classes |-> 1]

\* The samples an evaluated loader may yield: a class-0 and a class-1 sample
\* scored highest on their own class, and a class-1 sample all of whose
\* scores tie.
EvalSamples ==
    { [target |-> 0, sim |-> OneHot(0)],
      [target |-> 1, sim |-> OneHot(1)],
      [target |-> 1, sim |-> Flat] }

EvalBatches == UNION {[1 .. n -> EvalSamples] : n \in 1 .. EvalMaxBatch}

NoReturn ==
    [valid |-> FALSE, acc |-> <<0, 1>>, targets |-> << >>, predictions |-> << >>,
     similarities |-> << >>]

-----------------------------------------------------------------------------
(* train_model *)

ScoreIdle ==
    /\ logit_scale = 1
    /\ query = << >>
    /\ refs = << >>
    /\ perm = << >>
    /\ sim_refs = << >>
    /\ pred_refs = -1
    /\ sim_perm = << >>
    /\ pred_perm = -1

EvalIdle ==
    /\ support_img_loader = FALSE
    /\ arg_meta_query = FALSE
    /\ arg_meta_key = FALSE
    /\ loader_len = 0
    /\ batches_read = 0
    /\ acc = <<0, 1>>
    /\ tot_samples = 0
    /\ all_targets = << >>
    /\ all_predictions = << >>
    /\ all_similarities = << >>
    /\ ret = NoReturn

\* Inputs of a run: long runs over a loader of one-sample batches, and short
\* runs over a loader whose batches mix the classes freely.
TrainInputs ==
    \/ /\ n_iters \in 0 .. MaxNIters
       /\ shots \in 1 .. MaxShots
       /\ train_len \in 1 .. MaxBatches
       /\ batch_max = 1
       /\ train_classes = {0}
       /\ enable_lora = FALSE
       /\ enable_BitFit = FALSE
       /\ task_type = "image2text"
    \/ /\ n_iters = 1
       /\ shots \in 1 .. 2
       /\ train_len \in 1 .. 2
       /\ batch_max = MaxBatch
       /\ train_classes = Classes
       /\ enable_lora = FALSE
       /\ enable_BitFit = FALSE
       /\ task_type = "image2text"
    \* every adaptation mode, over short runs of one-sample batches
    \/ /\ n_iters = 1
       /\ shots \in 1 .. 2
       /\ train_len \in 1 .. 2
       /\ batch_max = 1
       /\ train_classes = {0}
       /\ enable_lora \in BOOLEAN
       /\ enable_BitFit \in BOOLEAN
       /\ task_type \in TaskTypes

Init ==
    /\ pc = "setup"
    /\ error = "none"
    /\ enable_MetaAdapter \in BOOLEAN
    /\ encoder \in Encoders
    /\ TrainInputs
    /\ model_mode = "eval"
    /\ heap = [o \in {Model, Copy} |-> IF o = Model THEN 0 ELSE -1]
    /\ best_model = "unbound"
    /\ best_acc = 0
    /\ acc_val = 0
    /\ total_iters = 0
    /\ count_iters = 0
    /\ i = 0
    /\ meta_query = "unbound"
    /\ meta_key = << >>
    /\ target = << >>
    /\ image_features = << >>
    /\ n_steps = 0
    /\ n_logs = 0
    /\ n_val = 0
    /\ val_max = -1
    /\ val_max_params = -1
    /\ n_test = 0
    /\ tested_obj = "none"
    /\ tested_params = -1
    /\ saved_params = -1
    /\ target_features = -1
    /\ n_recomputes = 0
    /\ scored_key = << >>
    /\ step_correct = {}
    /\ snap_key = << >>
    /\ eval_key = << >>
    /\ EvalIdle
    /\ ScoreIdle

\* Lines 102-118: the key memory from the support features, the iteration
\* budget, and best_model bound to the live model object.
Setup ==
    /\ pc = "setup"
    /\ IF enable_MetaAdapter
       THEN /\ model_mode' = "eval"
            /\ meta_query' = "target_features"
            /\ meta_key' = Reshape(SupportFeatures, NumClasses)
       ELSE UNCHANGED <<model_mode, meta_query, meta_key>>
    /\ total_iters' = n_iters * shots
    /\ count_iters' = 0
    /\ best_acc' = 0
    /\ best_model' = Model
    /\ pc' = "while"
    /\ UNCHANGED <<error, enable_MetaAdapter, encoder, n_iters, shots, train_len,
                   batch_max, train_classes, heap, acc_val, i, target, image_features,
                   n_steps, n_logs, n_val, val_max, val_max_params,
                   n_test, tested_obj, tested_params, saved_params, modeArgs,
                   target_features, n_recomputes, scored_key, step_correct, snap_key, eval_key,
                   evalVars,
                   scoreVars>>

\* Lines 120-124: the while test and the head of an epoch.
WhileTest ==
    /\ pc = "while"
    /\ IF count_iters < total_iters
       THEN /\ model_mode' = "train"
            /\ i' = 0
            /\ pc' = "batch"
       ELSE /\ pc' = "test"
            /\ UNCHANGED <<model_mode, i>>
    /\ UNCHANGED <<error, enable_MetaAdapter, encoder, n_iters, shots, train_len,
                   batch_max, train_classes, heap, best_model, best_acc, acc_val,
                   total_iters, count_iters, meta_query, meta_key, target,
                   image_features, n_steps, n_logs, n_val, val_max, val_max_params,
                   n_test, tested_obj, tested_params, saved_params, modeArgs,
                   target_features, n_recomputes, scored_key, step_correct, snap_key, eval_key,
                   evalVars,
                   scoreVars>>

\* Lines 125-168: one pass of the for loop over train_loader.
TrainStep ==
    /\ pc = "batch"
    /\ \E b \in Batches(batch_max, train_classes) :
         /\ target' = b
         \* lines 129-132
         /\ IF NeedsRecompute(enable_lora, enable_BitFit, task_type, encoder)
            THEN /\ target_features' = RecomputedFeatures(heap[Model])
                 /\ n_recomputes' = n_recomputes + 1
            ELSE UNCHANGED <<target_features, n_recomputes>>
         \* line 142: the adapter reads the memory; line 143 reads
         \* image_features only after that
         /\ scored_key' = IF enable_MetaAdapter THEN meta_key ELSE scored_key
         /\ IF encoder \in {"vision", "both"}
            THEN \* lines 134-168
                 /\ image_features' = EncodeImages(count_iters, Len(b), batch_max)
                 \* line 149
                 /\ step_correct' = {p \in 1 .. Len(b) :
                                        TrainPrediction(image_features'[p]) = b[p]}
                 \* lines 153-158
                 /\ heap' = [heap EXCEPT ![Model] = @ + 1]
                 /\ n_steps' = n_steps + 1
                 \* lines 161-164
                 /\ meta_key' = IF enable_MetaAdapter
                                 THEN UpdateKeys(meta_key, b, image_features')
                                 ELSE meta_key
                 /\ count_iters' = count_iters + 1
                 /\ IF count_iters' = total_iters
                    THEN /\ pc' = AfterBreak        \* break
                         /\ i' = i
                    ELSE IF i + 1 = train_len
                    THEN /\ pc' = "epoch_end"       \* loader exhausted
                         /\ i' = i
                    ELSE /\ pc' = "batch"
                         /\ i' = i + 1
                 /\ error' = error
            ELSE \* encoder = "text": image_features is read unassigned, line 143/146
                 /\ pc' = "error"
                 /\ error' = "UnboundLocalError"
                 /\ UNCHANGED <<image_features, step_correct, heap, n_steps, meta_key,
                                 count_iters, i>>
    /\ UNCHANGED <<enable_MetaAdapter, encoder, n_iters, shots, train_len, batch_max,
                   train_classes, model_mode, best_model, best_acc, acc_val, total_iters,
                   meta_query, n_logs, n_val, val_max, val_max_params,
                   n_test, tested_obj, tested_params, saved_params, modeArgs,
                   snap_key, eval_key, evalVars,
                   scoreVars>>

\* Lines 170-178: the epoch's log line, then eval_model on the validation
\* split. The call passes (val_loader, val_loader, target_features) by
\* position, so support_img_loader receives target_features; its keyword
\* arguments read the locals meta_query and meta_key.
Validate ==
    /\ pc = "epoch_end"
    /\ n_logs' = IF count_iters < total_iters THEN n_logs + 1 ELSE n_logs
    /\ model_mode' = "eval"
    /\ IF meta_query = "unbound"
       THEN /\ pc' = "error"
            /\ error' = "UnboundLocalError"
            /\ UNCHANGED <<acc_val, n_val, val_max, val_max_params, eval_key>>
       ELSE IF MissingSource(TRUE, TRUE, TRUE)
       THEN /\ pc' = "error"
            /\ error' = "ValueError"
            /\ UNCHANGED <<acc_val, n_val, val_max, val_max_params, eval_key>>
       ELSE \E a \in AccLevels :
            /\ eval_key' = PassedMemory(meta_key, snap_key)
            /\ acc_val' = a
            /\ n_val' = n_val + 1
            /\ val_max' = Max2(val_max, a)
            /\ val_max_params' = IF a > val_max THEN heap[Model] ELSE val_max_params
            /\ pc' = "checkpoint"
            /\ error' = error
    /\ UNCHANGED <<enable_MetaAdapter, encoder, n_iters, shots, train_len, batch_max,
                   train_classes, heap, best_model, best_acc, total_iters, count_iters,
                   i, meta_query, meta_key, target, image_features, n_steps, n_test,
                   tested_obj, tested_params, saved_params, modeArgs, target_features,
                   n_recomputes, scored_key, step_correct, snap_key, evalVars,
                   scoreVars>>

\* Lines 181-183: keep a deep copy of the model on a better validation accuracy.
Checkpoint ==
    /\ pc = "checkpoint"
    /\ IF Improves(acc_val, best_acc)
       THEN /\ best_acc' = acc_val
            /\ heap' = [heap EXCEPT ![Copy] = heap[Model]]
            /\ best_model' = Copy
            /\ snap_key' = meta_key
       ELSE UNCHANGED <<best_acc, heap, best_model, snap_key>>
    /\ pc' = "while"
    /\ UNCHANGED <<error, enable_MetaAdapter, encoder, n_iters, shots, train_len,
                   batch_max, train_classes, model_mode, acc_val, total_iters,
                   count_iters, i, meta_query, meta_key, target, image_features,
                   n_steps, n_logs, n_val, val_max, val_max_params,
                   n_test, tested_obj, tested_params, saved_params, modeArgs,
                   target_features, n_recomputes, scored_key, step_correct, eval_key, evalVars,
                   scoreVars>>

\* Lines 185-199: eval_model on the test split with best_model, then the
\* optional save of best_model's parameters.
Test ==
    /\ pc = "test"
    /\ IF meta_query = "unbound"
       THEN /\ pc' = "error"
            /\ error' = "UnboundLocalError"
            /\ UNCHANGED <<model_mode, n_test, tested_obj, tested_params, saved_params,
                           eval_key>>
       ELSE IF MissingSource(TRUE, TRUE, TRUE)
       THEN /\ pc' = "error"
            /\ error' = "ValueError"
            /\ UNCHANGED <<model_mode, n_test, tested_obj, tested_params, saved_params,
                           eval_key>>
       ELSE \E save \in BOOLEAN :
            /\ eval_key' = PassedMemory(meta_key, snap_key)
            /\ model_mode' = IF best_model = Model THEN "eval" ELSE model_mode
            /\ n_test' = n_test + 1
            /\ tested_obj' = best_model
            /\ tested_params' = heap[best_model]
            /\ saved_params' = IF save THEN heap[best_model] ELSE saved_params
            /\ pc' = "done"
            /\ error' = error
    /\ UNCHANGED <<enable_MetaAdapter, encoder, n_iters, shots, train_len, batch_max,
                   train_classes, heap, best_model, best_acc, acc_val, total_iters,
                   count_iters, i, meta_query, meta_key, target, image_features,
                   n_steps, n_logs, n_val, val_max, val_max_params, modeArgs,
                   target_features, n_recomputes, scored_key, step_correct, snap_key, evalVars,
                   scoreVars>>

Next == Setup \/ WhileTest \/ TrainStep \/ Validate \/ Checkpoint \/ Test

Spec == Init /\ [][Next]_vars

-----------------------------------------------------------------------------
(* eval_model *)

TrainIdle ==
    /\ encoder = "vision"
    /\ n_iters = 0
    /\ shots = 1
    /\ train_len = 1
    /\ batch_max = 1
    /\ train_classes = {0}
    /\ heap = [o \in {Model, Copy} |-> IF o = Model THEN 0 ELSE -1]
    /\ best_model = "unbound"
    /\ best_acc = 0
    /\ acc_val = 0
    /\ total_iters = 0
    /\ count_iters = 0
    /\ i = 0
    /\ meta_query = "unbound"
    /\ meta_key = << >>
    /\ target = << >>
    /\ image_features = << >>
    /\ n_steps = 0
    /\ n_logs = 0
    /\ n_val = 0
    /\ val_max = -1
    /\ val_max_params = -1
    /\ n_test = 0
    /\ tested_obj = "none"
    /\ tested_params = -1
    /\ saved_params = -1
    /\ target_features = -1
    /\ n_recomputes = 0
    /\ scored_key = << >>
    /\ step_correct = {}
    /\ snap_key = << >>
    /\ eval_key = << >>
    /\ enable_lora = FALSE
    /\ enable_BitFit = FALSE
    /\ task_type = "image2text"

\* Arguments of a call: every combination of the optional sources over a
\* short loader, and the call as train_model makes it over longer loaders.
EvalInputs ==
    \/ /\ enable_MetaAdapter \in BOOLEAN
       /\ support_img_loader \in BOOLEAN
       /\ arg_meta_query \in BOOLEAN
       /\ arg_meta_key \in BOOLEAN
       /\ loader_len \in 0 .. 1
    \/ /\ enable_MetaAdapter = TRUE
       /\ support_img_loader = FALSE
       /\ arg_meta_query = TRUE
       /\ arg_meta_key = TRUE
       /\ loader_len \in 1 .. EvalMaxBatches

EvalInit ==
    /\ pc = "eval_entry"
    /\ error = "none"
    /\ EvalInputs
    /\ model_mode = "train"
    /\ batches_read = 0
    /\ acc = <<0, 1>>
    /\ tot_samples = 0
    /\ all_targets = << >>
    /\ all_predictions = << >>
    /\ all_similarities = << >>
    /\ ret = NoReturn
    /\ TrainIdle
    /\ ScoreIdle

\* Lines 35-46: the argument check, the accumulators, model.eval().
EvalEnter ==
    /\ pc = "eval_entry"
    /\ IF MissingSource(arg_meta_query, arg_meta_key, support_img_loader)
       THEN /\ pc' = "raised"
            /\ error' = "ValueError"
            /\ UNCHANGED model_mode
       ELSE /\ pc' = "eval_extract"
            /\ model_mode' = "eval"
            /\ error' = error
    /\ acc' = <<0, 1>>
    /\ tot_samples' = 0
    /\ all_targets' = << >>
    /\ all_predictions' = << >>
    /\ all_similarities' = << >>
    /\ UNCHANGED <<enable_MetaAdapter, trainVars, scoreVars, support_img_loader, arg_meta_query,
                   arg_meta_key, loader_len, batches_read, ret>>

\* Lines 49-52: query and key from the support loader when they were not passed.
EvalExtract ==
    /\ pc = "eval_extract"
    /\ IF enable_MetaAdapter /\ (~arg_meta_query \/ ~arg_meta_key)
       THEN IF support_img_loader
            THEN /\ arg_meta_query' = TRUE
                 /\ arg_meta_key' = TRUE
                 /\ pc' = "eval_loop"
                 /\ error' = error
            ELSE \* get_vision_target_features iterates None
                 /\ pc' = "raised"
                 /\ error' = "TypeError"
                 /\ UNCHANGED <<arg_meta_query, arg_meta_key>>
       ELSE /\ pc' = "eval_loop"
            /\ UNCHANGED <<error, arg_meta_query, arg_meta_key>>
    /\ UNCHANGED <<enable_MetaAdapter, model_mode, trainVars, scoreVars, support_img_loader,
                   loader_len, batches_read, acc, tot_samples, all_targets,
                   all_predictions, all_similarities, ret>>

\* Lines 55-80: one batch of the loader.
EvalBatch ==
    /\ pc = "eval_loop"
    /\ batches_read < loader_len
    /\ \E b \in EvalBatches :
         LET cosine_similarity == [p \in 1 .. Len(b) |-> b[p].sim]
             tgt == [p \in 1 .. Len(b) |-> b[p].target]
             pred == [p \in 1 .. Len(b) |-> ArgMax(cosine_similarity[p])]
         IN  /\ acc' = Accumulate(acc, cls_acc(cosine_similarity, tgt),
                                    Len(cosine_similarity))
             /\ tot_samples' = tot_samples + Len(cosine_similarity)
             /\ all_targets' = all_targets \o tgt
             /\ all_predictions' = all_predictions \o pred
             /\ all_similarities' = all_similarities \o cosine_similarity
    /\ batches_read' = batches_read + 1
    /\ UNCHANGED <<pc, error, enable_MetaAdapter, model_mode, trainVars, scoreVars,
                   support_img_loader, arg_meta_query, arg_meta_key, loader_len, ret>>

\* Lines 83-91: the final division and the returned arrays.
EvalReturn ==
    /\ pc = "eval_loop"
    /\ batches_read = loader_len
    /\ IF tot_samples = 0
       THEN /\ pc' = "raised"
            /\ error' = "ZeroDivisionError"
            /\ UNCHANGED <<acc, ret>>
       ELSE /\ acc' = FracDivInt(acc, tot_samples)
            /\ ret' = [valid |-> TRUE, acc |-> acc', targets |-> all_targets,
                        predictions |-> all_predictions,
                        similarities |-> all_similarities]
            /\ pc' = "returned"
            /\ error' = error
    /\ UNCHANGED <<enable_MetaAdapter, model_mode, trainVars, scoreVars, support_img_loader,
                   arg_meta_query, arg_meta_key, loader_len, batches_read, tot_samples,
                   all_targets, all_predictions, all_similarities>>

EvalNext == EvalEnter \/ EvalExtract \/ EvalBatch \/ EvalReturn

EvalSpec == EvalInit /\ [][EvalNext]_vars

-----------------------------------------------------------------------------
(* The similarity scorer of lines 62-71, for one query row *)

\* Normalised embeddings: the unit vectors along the axes of the plane.
Embeds == {<<1, 0>>, <<0, 1>>, <<-1, 0>>, <<0, -1>>}

LogitScales == {1, 100}

Dot(a, b) == a[1] * b[1] + a[2] * b[2]

\* logit_scale * image_features @ R.t(), one row: line 65 with R the adapted
\* prototypes, line 68 with R the target features.
Similarity(scale, q, R) == [c \in DOMAIN R |-> scale * Dot(q, R[c])]

\* The permutations of the class axis.
Perms == {f \in [Classes -> Classes] : \A a, b \in Classes : f[a] = f[b] => a = b}

\* The reference set with the row of class c moved to index p[c].
PermuteRows(R, p) == [d \in Classes |-> R[CHOOSE c \in Classes : p[c] = d]]

ScoreInit ==
    /\ pc = "score"
    /\ error = "none"
    /\ enable_MetaAdapter \in BOOLEAN
    /\ model_mode = "eval"
    /\ TrainIdle
    /\ EvalIdle
    /\ logit_scale \in LogitScales
    /\ query \in Embeds
    /\ refs \in [Classes -> Embeds]
    /\ perm \in Perms
    /\ sim_refs = << >>
    /\ pred_refs = -1
    /\ sim_perm = << >>
    /\ pred_perm = -1

\* Lines 62-71 against the reference set.
Score ==
    /\ pc = "score"
    /\ sim_refs' = Similarity(logit_scale, query, refs)
    /\ pred_refs' = ArgMax(sim_refs')
    /\ pc' = "score_permuted"
    /\ UNCHANGED <<error, enable_MetaAdapter, model_mode, trainVars, evalVars,
                   logit_scale, query, refs, perm, sim_perm, pred_perm>>

\* Lines 62-71 against the reference set with its class rows permuted.
ScorePermuted ==
    /\ pc = "score_permuted"
    /\ sim_perm' = Similarity(logit_scale, query, PermuteRows(refs, perm))
    /\ pred_perm' = ArgMax(sim_perm')
    /\ pc' = "scored"
    /\ UNCHANGED <<error, enable_MetaAdapter, model_mode, trainVars, evalVars,
                   logit_scale, query, refs, perm, sim_refs, pred_refs>>

ScoreNext == Score \/ ScorePermuted

ScoreSpec == ScoreInit /\ [][ScoreNext]_vars

-----------------------------------------------------------------------------
(* Vocabulary of the properties *)

\* A training step has just completed (optimizer step, memory update, count).
Stepped == n_steps' = n_steps + 1

MemoryReady == enable_MetaAdapter /\ meta_query # "unbound"

\* The embeddings of the samples labelled c, in batch order.
RECURSIVE ClassFeats(_, _, _)
ClassFeats(tars, feats, c) ==
    IF tars = << >>
    THEN << >>
    ELSE (IF Head(tars) = c THEN <<Head(feats)>> ELSE << >>)
         \o ClassFeats(Tail(tars), Tail(feats), c)

CeilDiv(a, b) == (a + b - 1) \div b

-----------------------------------------------------------------------------
(* C1: train_model performs exactly total_iters optimizer steps whatever   *)
(* the loader length, and the run then reaches the final test phase: a run *)
(* that has ended has ended in the test phase, with n_steps = total_iters  *)
(* and one test evaluation.                                                *)
C1_ExactStepsThenTest ==
    pc \in {"done", "error"} =>
        /\ pc = "done"
        /\ n_steps = total_iters
        /\ n_test = 1

\* What does hold of the count in every run: it starts at 0, rises by one per
\* optimizer step, and never exceeds the budget; a run that gets to the test
\* phase has made exactly total_iters steps.
CountWithinBudget ==
    /\ count_iters = n_steps
    /\ pc # "setup" => count_iters <= total_iters
    /\ pc \in {"test", "done"} => count_iters = total_iters

\* The only runs that end early are those that read an unassigned local:
\* meta_query without the meta-adapter, image_features with encoder = "text".
EndsEarlyOnlyOnUnboundLocal ==
    pc = "error" =>
        /\ error = "UnboundLocalError"
        /\ ~enable_MetaAdapter \/ encoder = "text"

-----------------------------------------------------------------------------
(* C2: with the meta-adapter enabled the key memory holds exactly M        *)
(* entries for each of the K classes in every state from its               *)
(* initialisation on, whatever the labels of the batches.                  *)
C2_MemoryShape ==
    MemoryReady =>
        /\ DOMAIN meta_key = Classes
        /\ \A c \in Classes : Len(meta_key[c]) = M

\* A batch holding more than M samples of one class has been processed.
C2_Witness ==
    /\ MemoryReady
    /\ n_steps >= 1
    /\ \E c \in Classes : Len(ClassFeats(target, image_features, c)) > M

-----------------------------------------------------------------------------
(* C3: a training step ring-shifts each class row: the embeddings of the   *)
(* batch's samples of class c, newest first, followed by the old row, cut  *)
(* to M entries (so after j <= M samples of class c the row is those j     *)
(* embeddings newest first, then the first M-j entries of the old row).    *)
C3_RingShift ==
    [][(Stepped /\ MemoryReady) =>
         \A c \in Classes :
            meta_key'[c] =
                SubSeq(Reverse(ClassFeats(target', image_features', c)) \o meta_key[c],
                       1, M)]_vars

\* A step whose batch held j samples of one class, 2 <= j <= M, has run and
\* the row starts with the newest of them.
C3_Witness ==
    /\ MemoryReady
    /\ n_steps >= 1
    /\ \E c \in Classes :
         LET fs == ClassFeats(target, image_features, c)
         IN  /\ Len(fs) >= 2
             /\ Len(fs) <= M
             /\ meta_key[c][1] = fs[Len(fs)]
             /\ meta_key[c][2] = fs[Len(fs) - 1]

-----------------------------------------------------------------------------
(* C4: a step leaves the row of every class that has no sample in the      *)
(* batch as it was, and nothing but a training step changes the memory.    *)
C4_OtherRowsUnchanged ==
    /\ [][(MemoryReady /\ Stepped) =>
            \A c \in Classes :
               (\A p \in 1 .. Len(target') : target'[p] # c) =>
                   meta_key'[c] = meta_key[c]]_vars
    /\ [][(MemoryReady /\ ~Stepped) => meta_key' = meta_key]_vars

\* A step has updated one class while another class, absent from the batch,
\* still holds its support embeddings.
C4_Witness ==
    /\ MemoryReady
    /\ n_steps >= 1
    /\ \E c, d \in Classes :
         /\ \A p \in 1 .. Len(target) : target[p] # c
         /\ \E p \in 1 .. Len(target) : target[p] = d
         /\ meta_key[c] = Reshape(SupportFeatures, NumClasses)[c]
         /\ meta_key[d] # Reshape(SupportFeatures, NumClasses)[d]

-----------------------------------------------------------------------------
(* C5: best_acc never decreases; the checkpoint step replaces the snapshot *)
(* exactly when the new validation accuracy is strictly greater than       *)
(* best_acc; and outside that step best_acc is the largest validation      *)
(* accuracy returned so far, or the initial 0.                             *)
C5_BestAccMonotone ==
    /\ [](pc # "checkpoint" => best_acc = Max2(0, val_max))
    /\ [][best_acc' >= best_acc]_vars
    /\ [][pc = "checkpoint" =>
            ((<<best_model', heap'[Copy]>> # <<best_model, heap[Copy]>>)
                <=> (acc_val > best_acc))]_vars
    /\ [][pc \notin {"checkpoint", "setup"} =>
            <<best_model', heap'[Copy]>> = <<best_model, heap[Copy]>>]_vars

\* A later epoch has tied the best accuracy and the earlier snapshot is kept.
C5_Witness ==
    /\ pc = "while"
    /\ n_val >= 2
    /\ best_acc > 0
    /\ acc_val = best_acc
    /\ best_model = Copy
    /\ heap[Copy] < heap[Model]

-----------------------------------------------------------------------------
(* C6: the best-model snapshot never aliases the live model: no optimizer  *)
(* step changes the parameters held by best_model.                         *)
C6_SnapshotIndependent ==
    [][(best_model # "unbound" /\ Stepped) =>
          heap'[best_model] = heap[best_model]]_vars

-----------------------------------------------------------------------------
(* C7: eval_model with the meta-adapter enabled, no support loader and     *)
(* meta_query or meta_key absent raises the configuration error before     *)
(* model.eval() and before any batch is read, and returns nothing.         *)
NoMetaSource ==
    enable_MetaAdapter /\ ~support_img_loader /\ (~arg_meta_query \/ ~arg_meta_key)

C7_ConfigErrorFirst ==
    NoMetaSource =>
        /\ pc \in {"eval_entry", "raised"}
        /\ pc = "raised" => error = "ValueError"
        /\ model_mode = "train"
        /\ batches_read = 0
        /\ ~ret.valid

\* The call was made with only one of the pair absent and has raised.
C7_Witness ==
    /\ NoMetaSource
    /\ arg_meta_query # arg_meta_key
    /\ loader_len > 0
    /\ pc = "raised"
    /\ error = "ValueError"

-----------------------------------------------------------------------------
(* C8: for a non-empty loader, however it is batched, the accuracy         *)
(* eval_model returns equals the share of positions at which the returned  *)
(* predictions and targets agree.                                          *)

\* mean(predictions == targets) over the returned arrays
OneShotAccuracy(preds, tgts) ==
    Frac(Cardinality({p \in 1 .. Len(preds) : preds[p] = tgts[p]}), Len(preds))

C8_WeightedEqualsOneShot ==
    ret.valid => ret.acc = OneShotAccuracy(ret.predictions, ret.targets)

\* Two batches of unequal size, one sample of three predicted wrongly.
C8_Witness ==
    /\ ret.valid
    /\ batches_read = 2
    /\ Len(ret.targets) = 3
    /\ ret.acc = <<2, 3>>

-----------------------------------------------------------------------------
(* C9: validation and the checkpoint update follow an epoch exactly when   *)
(* the epoch ended with count_iters below total_iters; the epoch that      *)
(* reaches the budget is followed by the test phase with no validation in  *)
(* between.                                                                *)
C9_NoValidationAfterCutEpoch ==
    pc = "checkpoint" => count_iters < total_iters

(* C9 as amended: validation and the checkpoint update follow every epoch, *)
(* the budget-reaching one included; only the log line is kept to epochs   *)
(* that ended below the budget. So between epochs and in the test phase    *)
(* the validations returned number one per epoch started, the log lines    *)
(* one fewer once the budget is reached.                                   *)
C9_ValidationAfterEveryEpoch ==
    pc \in {"while", "test", "done"} =>
        /\ n_val = CeilDiv(count_iters, train_len)
        /\ n_logs = n_val - (IF count_iters = total_iters /\ total_iters > 0
                              THEN 1 ELSE 0)
        /\ pc \in {"test", "done"} => count_iters = total_iters

\* The run is over and the snapshot tested was taken by the checkpoint update
\* that followed the budget-reaching epoch, cut off before its last batch.
C9_Witness ==
    /\ pc = "done"
    /\ total_iters % train_len # 0
    /\ n_val >= 2
    /\ best_model = Copy
    /\ tested_params = total_iters

-----------------------------------------------------------------------------
(* C10: a run that finishes evaluates the test split once, after the last  *)
(* training step and every validation, on the snapshot taken at the        *)
(* earliest epoch whose validation accuracy is the run's maximum, not on   *)
(* the live model.                                                         *)
C10_TestsEarliestBestSnapshot ==
    (pc = "done" /\ n_val >= 1) =>
        /\ n_test = 1
        /\ n_steps = total_iters
        /\ tested_obj = Copy
        /\ tested_params = val_max_params

\* What does hold: one test evaluation, after the last step, on best_model;
\* when some validation accuracy exceeded 0 that is the snapshot of the
\* earliest epoch reaching the maximum.
TestsBestModel ==
    pc = "done" =>
        /\ n_test = 1
        /\ n_steps = total_iters
        /\ tested_obj = best_model
        /\ val_max > 0 => tested_obj = Copy /\ tested_params = val_max_params
        /\ val_max <= 0 => tested_obj = Model /\ tested_params = heap[Model]

-----------------------------------------------------------------------------
(* C11: with enable_MetaAdapter false train_model needs no meta query or   *)
(* key memory: the run goes through its steps, validations and the test    *)
(* evaluation without raising an error.                                    *)
C11_RunsWithoutMetaAdapter ==
    (~enable_MetaAdapter /\ encoder # "text") => pc # "error"

-----------------------------------------------------------------------------
(* C12: eval_model raises the missing-source error only when the           *)
(* meta-adapter path is active: with enable_MetaAdapter false and no       *)
(* support loader, meta_query or meta_key it iterates the loader and       *)
(* returns.                                                                *)
C12_NoErrorWithoutMetaAdapter ==
    (/\ ~enable_MetaAdapter
     /\ ~support_img_loader
     /\ ~arg_meta_query
     /\ ~arg_meta_key
     /\ loader_len > 0) => error = "none"

-----------------------------------------------------------------------------
(* C14: for every encoder setting each training step encodes the batch's   *)
(* images before the similarity computation: once a step has fetched a     *)
(* batch there are image features for each of its samples.                 *)
C14_StepHasImageFeatures ==
    target # << >> =>
        /\ Len(image_features) = Len(target)
        /\ pc # "error" \/ encoder # "text"


-----------------------------------------------------------------------------
(* C15: a training step recomputes the target features from the live model,
   before anything else in the step, exactly when low-rank adaptation updates
   the encoder that produces them (text side for image2text, vision side for
   image2image) or bias-only tuning is on; no other statement assigns them,
   so under every other configuration they stay the tensor passed in. *)
RecomputeConfigured ==
    \/ enable_BitFit
    \/ /\ enable_lora
       /\ <<task_type, encoder>> \in {<<"image2text", "text">>, <<"image2text", "both">>,
                                      <<"image2image", "vision">>, <<"image2image", "both">>}

C15_RecomputeIffConfigured ==
    /\ [][(pc = "batch" /\ RecomputeConfigured) =>
              (/\ n_recomputes' = n_recomputes + 1
               /\ target_features' = heap[Model])]_vars
    /\ [][(pc # "batch" \/ ~RecomputeConfigured) =>
              UNCHANGED <<target_features, n_recomputes>>]_vars
    /\ [](~RecomputeConfigured => (target_features = -1 /\ n_recomputes = 0))

\* Low-rank adaptation of the vision encoder on image2image: the second step
\* recomputed the features from the parameters the first step left.
C15_Witness ==
    /\ enable_lora
    /\ ~enable_BitFit
    /\ n_recomputes = 2
    /\ target_features = 1
    /\ n_steps = 2


-----------------------------------------------------------------------------
(* C16: with the meta-adapter enabled every pass through the loop body that
   does not raise is one step that reads the memory as the previous step
   left it, steps the optimizer, and only then shifts into that same memory
   the embeddings of all its samples, ranked right or wrong; the step that
   reaches the budget and breaks out of the loop does so too. *)
C16_ReadThenStepThenWrite ==
    /\ [][(pc = "batch" /\ MemoryReady /\ pc' # "error") => Stepped]_vars
    /\ [][(Stepped /\ MemoryReady) =>
             (/\ scored_key' = meta_key
              /\ heap'[Model] = heap[Model] + 1
              /\ \A c \in Classes :
                    meta_key'[c] =
                        SubSeq(Reverse(ClassFeats(target', image_features', c))
                                   \o scored_key'[c], 1, M))]_vars
    /\ [][pc # "batch" => UNCHANGED scored_key]_vars

\* The step that reached the budget ranked a sample wrong, and that sample's
\* embedding heads its class row all the same; the forward pass of the step
\* had read the row without it.
C16_Witness ==
    /\ MemoryReady
    /\ pc = "epoch_end"
    /\ n_steps >= 2
    /\ count_iters = total_iters
    /\ \E p \in 1 .. Len(target) :
          /\ p \notin step_correct
          /\ meta_key[target[p]][1] = image_features[p]
          /\ scored_key[target[p]][1] # image_features[p]
    /\ step_correct # {}


-----------------------------------------------------------------------------
(* C17: the deep copy of the best model leaves the key memory alone and
   takes no copy of it; every validation and the final test are handed the
   live memory, as the latest training step left it. The test therefore runs
   the copied parameters against the memory of the end of training, which is
   not the memory of the time of the copy once a step has run since. *)
C17_SnapshotLeavesMemoryLive ==
    /\ [][pc = "checkpoint" => UNCHANGED meta_key]_vars
    /\ [][(MemoryReady /\ (n_val' = n_val + 1 \/ n_test' = n_test + 1)) =>
             (eval_key' = meta_key /\ UNCHANGED meta_key)]_vars
    /\ []((MemoryReady /\ best_model = Copy /\ heap[Copy] < heap[Model]) =>
             meta_key # snap_key)
    /\ []((MemoryReady /\ pc = "done") =>
             /\ eval_key = meta_key
             /\ tested_params = heap[best_model]
             /\ count_iters = total_iters)

\* The test ran a copy taken before the last training steps against the
\* memory those steps left.
C17_Witness ==
    /\ MemoryReady
    /\ pc = "done"
    /\ best_model = Copy
    /\ tested_params = heap[Copy]
    /\ heap[Copy] < heap[Model]
    /\ eval_key = meta_key
    /\ eval_key # snap_key
    /\ snap_key # << >>


-----------------------------------------------------------------------------
(* C13: for every permutation p of the class rows of the reference set the
   query's scores are permuted by p, and its predicted class under the
   permuted set is p of its predicted class under the original set, the
   prediction being the first maximal index. *)
ScoresMoveWithClass ==
    \A c \in Classes : sim_perm[perm[c]] = sim_refs[c]

C13_ArgmaxTracksPermutation ==
    pc = "scored" =>
        /\ ScoresMoveWithClass
        /\ pred_perm = perm[pred_refs]

\* The classes whose score is the largest.
TopClasses == {c \in Classes : \A d \in Classes : sim_refs[d] <= sim_refs[c]}

SetMin(S) == CHOOSE x \in S : \A y \in S : x <= y

(* C13, as it holds: the scores are permuted by p; each prediction is the
   lowest index among the maximal scores, so the prediction under the
   permuted set is the lowest of the p-images of the top classes, and it is
   p of the original prediction when one class alone holds the maximum. *)
C13_ArgmaxTracksUniqueMaximum ==
    pc = "scored" =>
        /\ ScoresMoveWithClass
        /\ pred_refs = SetMin(TopClasses)
        /\ pred_perm = SetMin({perm[c] : c \in TopClasses})
        /\ Cardinality(TopClasses) = 1 => pred_perm = perm[pred_refs]

\* One class alone holds the maximum, the permutation moves it, and the
\* prediction has moved with it.
C13_Witness ==
    /\ pc = "scored"
    /\ Cardinality(TopClasses) = 1
    /\ perm[pred_refs] # pred_refs
    /\ pred_perm = perm[pred_refs]
    /\ logit_scale > 1

====
